---- MODULE Spec2Model ----
(***************************************************************************)
(* flick.py: copy the photos of a Flickr album onto a Miro board as a grid *)
(* of grouped tiles.  The model follows main() statement by statement;     *)
(* every HTTP request is one step whose response is chosen by the remote   *)
(* service.                                                                *)
(***************************************************************************)
EXTENDS Integers, Sequences, FiniteSets, TLC

\* ---- bounds of the model ----
MaxPage == 2        \* page counts the listing server reports exactly
MaxPhotos == 2      \* records the listing server hands out in one run
MaxTries == 3       \* largest `tries` given to _miro_post on its own
MaxCols == 3        \* widest grid, the default one apart, laid out on its own

\* `page` is kept exactly up to PageCap; from there on only its parity is
\* kept (PageCap and PageCap + 1 alternate).  A reported count of Beyond
\* stands for any count above the page that was requested.
PageCap == MaxPage + 1
Beyond == PageCap + 2

\* ---- program constants ----
DefaultTries == 2       \* def _miro_post(url, payload, tries=2)
RateLimited == 429      \* r.status_code == 429
RetrySleep == 200       \* time.sleep(2), in hundredths of a time unit
PacingSleep == 12       \* time.sleep(0.12), in hundredths of a time unit

None == "<None>"

VARIABLES
    env,          \* the five required module-level configuration values
    layout,       \* IMAGES_PER_ROW, CELL_W, CELL_H, START_X, START_Y
    pc,           \* position of main()
    missing,      \* names listed by SystemExit
    exc,          \* type of the exception that ended the run
    page,         \* flickr_photos_in_photoset: page
    reqLog,       \* pages requested from the listing endpoint, in order
    reported,     \* answers the listing server has given so far
    served,       \* records the listing server has sent so far, in order
    photos,       \* main: photos
    total,        \* main: total
    idx,          \* main: idx
    done,         \* main: done
    img_url,      \* main: img_url
    created_ids,  \* main: created_ids
    post,         \* frame of the running _miro_post call
    shape,        \* miro_group_items: index of the payload being tried
    last_err,     \* miro_group_items: last_err
    calls,        \* board requests sent for the current photo, in order
    printed,      \* progress suffixes printed for the current photo
    groupCalls,   \* invocations of miro_group_items for the current photo
    paced,        \* no board request was sent since the last pacing sleep
                  \* (or since the start of the run)
    tiles,        \* x_center, y_center computed for the photos so far
    imagesOk      \* photos whose miro_create_image call has returned

vars == <<env, layout, pc, missing, exc, page, reqLog, reported, served,
          photos, total, idx, done, img_url, created_ids, post, shape,
          last_err, calls, printed, groupCalls, paced, tiles, imagesOk>>

\* ---------------------------------------------------------------------
\* Configuration
\* ---------------------------------------------------------------------
RequiredKeys ==
    <<"FLICKR_API_KEY", "FLICKR_USER_ID", "FLICKR_PHOTOSET_ID",
      "MIRO_TOKEN", "MIRO_BOARD_ID">>

\* os.getenv gives None (unset), "" (set but empty) or a non-empty string
EnvValues == {None, "", "value"}

\* Python truth value of a configuration value
Truthy(v) == v # None /\ v # ""

MissingNoneOnly(e) == SelectSeq(RequiredKeys, LAMBDA k : e[k] = None)

\* missing = [k for k, v in {...}.items() if not v]
MissingKeys(e) == SelectSeq(RequiredKeys, LAMBDA k : ~Truthy(e[k]))

\* ---------------------------------------------------------------------
\* Layout
\* ---------------------------------------------------------------------
\* the defaults of IMAGES_PER_ROW, CELL_W, CELL_H, START_X, START_Y
DefaultPerRow == 6
DefaultCellW == 440
DefaultCellH == 420
DefaultStart == 0

DefaultLayout ==
    [per_row |-> DefaultPerRow, cell_w |-> DefaultCellW, cell_h |-> DefaultCellH,
     start_x |-> DefaultStart, start_y |-> DefaultStart]

\* the layouts main() is run with: the default, and narrower grids
MainLayouts == {[DefaultLayout EXCEPT !.per_row = c] : c \in {1, 2, DefaultPerRow}}

TileIndexByDone(i, d) == d + 1

\* the index the cell is computed from: idx, whatever done is
TileIndex(i, d) == i

ColOf(k, per_row) == (k - 1) % per_row

RowByModulo(k, per_row) == (k - 1) % per_row

\* row = (idx - 1) // IMAGES_PER_ROW
RowOf(k, per_row) == (k - 1) \div per_row

\* col, row, x_center, y_center of the photo at position i, its cell being
\* computed from index k
TileCenter(i, k, lay) ==
    [idx |-> i,
     x |-> lay.start_x + ColOf(k, lay.per_row) * lay.cell_w,
     y |-> lay.start_y + RowOf(k, lay.per_row) * lay.cell_h]

\* ---------------------------------------------------------------------
\* Photo records and image selection
\* ---------------------------------------------------------------------
UrlKeysLargestFirst ==
    <<"url_o", "url_k", "url_h", "url_m", "url_z", "url_l", "url_c">>

\* for key in ("url_c", "url_l", "url_z", "url_m", "url_h", "url_k", "url_o")
UrlKeys == <<"url_c", "url_l", "url_z", "url_m", "url_h", "url_k", "url_o">>

NoUrls == [k \in {} |-> ""]

PhotoSamples ==
    { [id |-> "p1", media |-> "video",
       urls |-> ("url_c" :> "C1" @@ "url_o" :> "O1")],
      [id |-> "p2", media |-> "photo", urls |-> NoUrls],
      [id |-> "p3", media |-> "photo",
       urls |-> ("url_c" :> "C3" @@ "url_o" :> "O3")] }

\* every record the selector can tell apart: media is "photo", "video" or
\* absent, and each URL field is absent, empty, or holds a URL of its own
\* (written as the name of the field)
AllRecords ==
    UNION { { [id |-> "p", media |-> m, urls |-> u] :
                m \in {"photo", "video", None},
                u \in [S -> {""}] \cup {[k \in S |-> k]} \cup
                      {[k \in S |-> IF k = UrlKeys[1] THEN "" ELSE k]} } :
            S \in SUBSET {UrlKeys[i] : i \in 1..Len(UrlKeys)} }

RECURSIVE FirstPresent(_, _)
FirstPresent(p, i) ==
    IF i > Len(UrlKeys) THEN None
    ELSE IF UrlKeys[i] \in DOMAIN p.urls THEN p.urls[UrlKeys[i]]
    ELSE FirstPresent(p, i + 1)

PickIgnoringMedia(p) == FirstPresent(p, 1)

pick_best_image_url(p) ==
    IF p.media = "video" THEN None ELSE FirstPresent(p, 1)

\* ---------------------------------------------------------------------
\* Item identifiers and _coerce_ids_to_numbers
\* ---------------------------------------------------------------------
DigitChars == <<"0", "1", "2", "3", "4", "5", "6", "7", "8", "9">>

StrId(s) == [t |-> "str", s |-> s, n |-> 0]
IntId(n) == [t |-> "int", s |-> <<>>, n |-> n]
NoId == [t |-> "none", s |-> <<>>, n |-> 0]

IsDigitChar(c) == \E d \in 1..Len(DigitChars) : DigitChars[d] = c
DigitVal(c) == (CHOOSE d \in 1..Len(DigitChars) : DigitChars[d] = c) - 1

\* str.isdigit(): non-empty and every character a digit
IsDigit(s) == Len(s) > 0 /\ \A i \in 1..Len(s) : IsDigitChar(s[i])

RECURSIVE ToInt(_)
ToInt(s) ==
    IF Len(s) = 0 THEN 0
    ELSE 10 * ToInt(SubSeq(s, 1, Len(s) - 1)) + DigitVal(s[Len(s)])

CoerceOne(id) ==
    IF id.t = "str" /\ IsDigit(id.s) THEN IntId(ToInt(id.s)) ELSE id

_coerce_ids_to_numbers(ids_list) ==
    [i \in 1..Len(ids_list) |-> CoerceOne(ids_list[i])]

\* identifiers the board hands out in answer to a request of each stage:
\* none, a string of digits, or another string
IdSamples(stage) ==
    CASE stage = "image" -> {NoId, StrId(<<"4", "5">>)}
      [] stage = "rect" -> {NoId, StrId(<<"4", "x">>)}
      [] stage = "text" -> {NoId, StrId(<<"0", "7">>)}
      [] stage = "group" -> {StrId(<<"9">>)}

\* ---------------------------------------------------------------------
\* _miro_post
\* ---------------------------------------------------------------------
\* a response of the board: status 0 stands for no response at all
\* (requests raised a Timeout or ConnectionError)
BoardResponses(stage) ==
    [status : {200}, id : IdSamples(stage)]
        \cup [status : {RateLimited, 400, 0}, id : {NoId}]

\* r.raise_for_status() raises HTTPError for 4xx and 5xx
RaisesForStatus(s) == s >= 400 /\ s < 600

\* frame of a call: range(tries) with nothing run yet
NewFrameExtraTry(tries) ==
    [tries |-> tries + 1, attempt |-> 0, hist |-> <<>>, slept |-> <<>>,
     result |-> IF tries + 1 <= 0 THEN "RuntimeError" ELSE "running",
     body |-> NoId]

NewFrame(tries) ==
    [tries |-> tries, attempt |-> 0, hist |-> <<>>, slept |-> <<>>,
     result |-> IF tries <= 0 THEN "RuntimeError" ELSE "running",
     body |-> NoId]

IdleFrame == [NewFrame(DefaultTries) EXCEPT !.result = "idle"]

\* end of the for loop: the statement after it raises RuntimeError
LoopNext(f) ==
    IF f.attempt + 1 < f.tries
    THEN [f EXCEPT !.attempt = f.attempt + 1]
    ELSE [f EXCEPT !.attempt = f.attempt + 1, !.result = "RuntimeError"]

\* one pass of the loop body, given the response to session.post
MiroPostStepNoRetry(f, resp) ==
    LET g == [f EXCEPT !.hist = Append(f.hist, resp.status)] IN
    IF resp.status = 0 THEN [g EXCEPT !.result = "ConnectionError"]
    ELSE IF RaisesForStatus(resp.status) THEN [g EXCEPT !.result = "HTTPError"]
    ELSE [g EXCEPT !.result = "returned", !.body = resp.id]

MiroPostStepRetryAll(f, resp) ==
    LET g == [f EXCEPT !.hist = Append(f.hist, resp.status)] IN
    IF resp.status = 0 THEN [g EXCEPT !.result = "ConnectionError"]
    ELSE IF RaisesForStatus(resp.status) /\ f.attempt + 1 < f.tries
    THEN LoopNext([g EXCEPT !.slept = Append(g.slept, RetrySleep)])
    ELSE IF RaisesForStatus(resp.status) THEN [g EXCEPT !.result = "HTTPError"]
    ELSE [g EXCEPT !.result = "returned", !.body = resp.id]

MiroPostStep(f, resp) ==
    LET g == [f EXCEPT !.hist = Append(f.hist, resp.status)] IN
    IF resp.status = 0 THEN [g EXCEPT !.result = "ConnectionError"]
    ELSE IF resp.status = RateLimited /\ f.attempt + 1 < f.tries
    THEN LoopNext([g EXCEPT !.slept = Append(g.slept, RetrySleep)])
    ELSE IF RaisesForStatus(resp.status) THEN [g EXCEPT !.result = "HTTPError"]
    ELSE [g EXCEPT !.result = "returned", !.body = resp.id]

\* an HTTPError: the payload shape it came from (0 outside miro_group_items)
\* and the status of the response
NoErr == [shape |-> 0, status |-> 0]
HTTPError(k, status) == [shape |-> k, status |-> status]

\* ---------------------------------------------------------------------
\* The listing server and flickr_photos_in_photoset
\* ---------------------------------------------------------------------
RECURSIVE SeqsUpTo(_, _)
SeqsUpTo(S, n) ==
    IF n = 0 THEN {<<>>}
    ELSE LET shorter == SeqsUpTo(S, n - 1) IN
         shorter \cup {Append(q, x) : q \in {r \in shorter : Len(r) = n - 1}, x \in S}

\* the "pages" field of a photoset: <<>> when the field is left out
PagesFields == {<<>>} \cup {<<n>> : n \in (0..MaxPage) \cup {Beyond}}

\* an answer of the listing server: with the photo container and this
\* "pages" field, or without the container
Answer(field) == [container |-> TRUE, pages |-> field]
NoContainer == [container |-> FALSE, pages |-> <<>>]

\* int(photoset.get("pages", 1))
PagesOf(field) == IF field = <<>> THEN 1 ELSE field[1]

\* page += 1
NextPageStuck(p) == p

NextPage(p) == IF p <= PageCap THEN p + 1 ELSE PageCap

LogRequest(log, p) == IF Len(log) <= PageCap THEN Append(log, p) ELSE log

LastPageStrict(p, field) == p > PagesOf(field)

\* if page >= int(photoset.get("pages", 1)): break
LastPage(p, field) == p >= PagesOf(field)

\* ---------------------------------------------------------------------
\* Initial state: the module has been imported, main() has not started
\* ---------------------------------------------------------------------
InitOther ==
    /\ missing = <<>>
    /\ exc = None
    /\ page = 1
    /\ reqLog = <<>>
    /\ reported = {}
    /\ served = <<>>
    /\ total = 0
    /\ idx = 0
    /\ done = 0
    /\ img_url = None
    /\ created_ids = <<>>
    /\ post = IdleFrame
    /\ shape = 0
    /\ last_err = NoErr
    /\ calls = <<>>
    /\ printed = <<>>
    /\ groupCalls = 0
    /\ paced = TRUE
    /\ tiles = <<>>
    /\ imagesOk = 0

InitRest ==
    /\ photos = <<>>
    /\ InitOther

Init ==
    /\ env \in [{RequiredKeys[i] : i \in 1..Len(RequiredKeys)} -> EnvValues]
    /\ layout \in MainLayouts
    /\ pc = "start"
    /\ InitRest

ListingVars == <<page, reqLog, reported, served, photos, total>>
PhotoVars == <<idx, done, img_url, created_ids, post, shape, last_err,
               calls, printed, groupCalls, paced, tiles, imagesOk>>

\* ---------------------------------------------------------------------
\* main(): configuration check
\* ---------------------------------------------------------------------
Main_ConfigMissing ==
    /\ pc = "start"
    /\ MissingKeys(env) # <<>>
    /\ missing' = MissingKeys(env)
    /\ pc' = "config_error"
    /\ exc' = "SystemExit"
    /\ UNCHANGED <<env, layout, ListingVars, PhotoVars>>

Main_ConfigComplete ==
    /\ pc = "start"
    /\ MissingKeys(env) = <<>>
    /\ pc' = "listing"
    /\ UNCHANGED <<env, layout, missing, exc, ListingVars, PhotoVars>>

\* ---------------------------------------------------------------------
\* main(): photos = list(flickr_photos_in_photoset(...)), one request a step
\* ---------------------------------------------------------------------
\* the generator is exhausted: total = len(photos); if total == 0: return
AfterListing(all) ==
    /\ photos' = all
    /\ total' = Len(all)
    /\ pc' = IF Len(all) = 0 THEN "no_photos" ELSE "select"

Flickr_RequestFailsSwallowed ==
    /\ pc = "listing"
    /\ \E e \in {"ConnectionError", "HTTPError"} : exc' = e
    /\ reqLog' = LogRequest(reqLog, page)
    /\ AfterListing(photos)
    /\ UNCHANGED <<env, layout, missing, page, reported, served, PhotoVars>>

\* requests.get raises, or raise_for_status() raises: nothing catches it
Flickr_RequestFails ==
    /\ pc = "listing"
    /\ \E e \in {"ConnectionError", "HTTPError"} : exc' = e
    /\ reqLog' = LogRequest(reqLog, page)
    /\ pc' = "crashed"
    /\ UNCHANGED <<env, layout, missing, page, reported, served, photos, total, PhotoVars>>

\* "photoset" is missing or empty, or holds no "photo": break
Flickr_NoContainer ==
    /\ pc = "listing"
    /\ reqLog' = LogRequest(reqLog, page)
    /\ reported' = reported \cup {NoContainer}
    /\ AfterListing(photos)
    /\ UNCHANGED <<env, layout, missing, exc, page, served, PhotoVars>>

\* a page with records: yield each, then stop or go on to the next page
Flickr_Page ==
    /\ pc = "listing"
    /\ \E recs \in SeqsUpTo(PhotoSamples, MaxPhotos - Len(photos)),
          field \in PagesFields :
        /\ reqLog' = LogRequest(reqLog, page)
        /\ reported' = reported \cup {Answer(field)}
        /\ served' = served \o recs
        /\ IF LastPage(page, field)
           THEN /\ AfterListing(photos \o recs)
                /\ page' = page
           ELSE /\ photos' = photos \o recs
                /\ page' = NextPage(page)
                /\ UNCHANGED <<total, pc>>
    /\ UNCHANGED <<env, layout, missing, exc, PhotoVars>>

\* ---------------------------------------------------------------------
\* main(): for idx, p in enumerate(photos, start=1)
\* ---------------------------------------------------------------------
Line(suffix, e) == [suffix |-> suffix, e |-> e]

FinishPhotoUncounted(pr) ==
    /\ done' = done
    /\ printed' = Append(pr, Line("ok", NoErr))
    /\ paced' = TRUE
    /\ pc' = "select"

FinishPhotoNoSleep(pr) ==
    /\ done' = done + 1
    /\ printed' = Append(pr, Line("ok", NoErr))
    /\ paced' = FALSE
    /\ pc' = "select"

\* done += 1; print_progress(... "ok"); time.sleep(0.12)
FinishPhoto(pr) ==
    /\ done' = done + 1
    /\ printed' = Append(pr, Line("ok", NoErr))
    /\ paced' = TRUE
    /\ pc' = "select"

\* the generator behind `photos` is gone once the loop runs: its frame and
\* the record of its requests are dropped
ListingReleased ==
    /\ page' = 0
    /\ reqLog' = <<>>
    /\ reported' = {}
    /\ served' = <<>>

\* the loop is exhausted: print the summary
Main_Summary ==
    /\ pc = "select"
    /\ idx = total
    /\ pc' = "summary"
    /\ UNCHANGED <<env, layout, missing, exc, ListingVars, PhotoVars>>

\* if not img_url: print_progress(... "skip ..."); continue
Main_SkipPhoto ==
    /\ pc = "select"
    /\ idx < total
    /\ LET url == pick_best_image_url(photos[idx + 1]) IN
        /\ url = None \/ url = ""
        /\ img_url' = url
    /\ idx' = idx + 1
    /\ printed' = <<Line("skip", NoErr)>>
    /\ calls' = <<>>
    /\ groupCalls' = 0
    /\ post' = IdleFrame
    /\ ListingReleased
    /\ UNCHANGED <<env, layout, pc, missing, exc, photos, total, done, created_ids,
                   shape, last_err, paced, tiles, imagesOk>>

\* a usable URL: created_ids = []; miro_create_image is called
Main_BeginPhoto ==
    /\ pc = "select"
    /\ idx < total
    /\ LET url == pick_best_image_url(photos[idx + 1]) IN
        /\ ~(url = None \/ url = "")
        /\ img_url' = url
    /\ idx' = idx + 1
    /\ created_ids' = <<>>
    /\ printed' = <<>>
    /\ calls' = <<>>
    /\ groupCalls' = 0
    /\ post' = NewFrame(DefaultTries)
    /\ tiles' = Append(tiles, TileCenter(idx + 1, TileIndex(idx + 1, done), layout))
    /\ pc' = "image"
    /\ ListingReleased
    /\ UNCHANGED <<env, layout, missing, exc, photos, total, done, shape, last_err, paced, imagesOk>>

\* ---------------------------------------------------------------------
\* main(): stages 1-3, miro_create_image / _shape_rect / _text
\* ---------------------------------------------------------------------
CreateStages == {"image", "rect", "text"}

ErrSuffix(stage) ==
    CASE stage = "image" -> "ERR image"
      [] stage = "rect" -> "ERR overlay"
      [] stage = "text" -> "ERR text"

\* group_ids = [i for i in created_ids if i is not None]
GroupIds(created) == SelectSeq(created, LAMBDA i : i # NoId)

\* if len(group_ids) >= 2
ShouldGroup(group_ids) == Len(group_ids) >= 2

\* a request to the board, as logged: its endpoint, the position of the
\* photo it is sent for, and (for a grouping request) its payload
CreateCall(stage) == [stage |-> stage, photo |-> idx, path |-> <<>>, ids |-> <<>>]

AfterStageRevisit(stage, ids, pr, f) ==
    /\ created_ids' = ids
    /\ pc' = IF stage = "image" THEN "rect" ELSE "image"
    /\ post' = NewFrame(DefaultTries)
    /\ printed' = pr
    /\ paced' = FALSE
    /\ UNCHANGED <<done, shape, last_err, groupCalls>>

\* the statements after stage `stage`, once it returned or its HTTPError
\* was caught (f is the frame the call ended with), up to the next request
\* or the end of the iteration
AfterStage(stage, ids, pr, f) ==
    /\ created_ids' = ids
    /\ IF stage \in {"image", "rect"}
       THEN /\ pc' = IF stage = "image" THEN "rect" ELSE "text"
            /\ post' = NewFrame(DefaultTries)
            /\ printed' = pr
            /\ paced' = FALSE
            /\ UNCHANGED <<done, shape, last_err, groupCalls>>
       ELSE IF ShouldGroup(GroupIds(ids))
       THEN /\ pc' = "group"
            /\ post' = NewFrame(DefaultTries)
            /\ shape' = 1
            /\ last_err' = NoErr
            /\ groupCalls' = groupCalls + 1
            /\ printed' = pr
            /\ paced' = FALSE
            /\ UNCHANGED done
       ELSE /\ FinishPhoto(pr)
            /\ post' = f
            /\ UNCHANGED <<shape, last_err, groupCalls>>

\* 429 with an attempt left: sleep and post again
Create_Retry(stage) ==
    /\ pc = stage
    /\ \E resp \in BoardResponses(pc) :
        /\ MiroPostStep(post, resp).result = "running"
        /\ post' = MiroPostStep(post, resp)
    /\ calls' = Append(calls, CreateCall(stage))
    /\ paced' = FALSE
    /\ UNCHANGED <<env, layout, pc, missing, exc, ListingVars, idx, done, img_url,
                   created_ids, shape, last_err, printed, groupCalls, tiles, imagesOk>>

\* the call returns r.json(); its "id", when there is one, is collected
Create_Returns(stage) ==
    /\ pc = stage
    /\ \E resp \in BoardResponses(pc) :
        LET f == MiroPostStep(post, resp) IN
        /\ f.result = "returned"
        /\ AfterStage(stage,
                      IF f.body # NoId THEN Append(created_ids, f.body)
                      ELSE created_ids,
                      printed, f)
    /\ calls' = Append(calls, CreateCall(stage))
    /\ imagesOk' = IF stage = "image" THEN imagesOk + 1 ELSE imagesOk
    /\ UNCHANGED <<env, layout, missing, exc, ListingVars, idx, img_url, tiles>>

\* except requests.HTTPError: the image stage gives the photo up
\* (continue), the other two go on with the identifiers collected so far
Create_HTTPError(stage) ==
    /\ pc = stage
    /\ \E resp \in BoardResponses(pc) :
        LET f == MiroPostStep(post, resp)
            pr == Append(printed, Line(ErrSuffix(stage), HTTPError(0, resp.status)))
        IN
        /\ f.result = "HTTPError"
        /\ IF stage = "image"
           THEN /\ printed' = pr
                /\ pc' = "select"
                /\ post' = f
                /\ paced' = FALSE
                /\ UNCHANGED <<done, created_ids, shape, last_err, groupCalls>>
           ELSE AfterStage(stage, created_ids, pr, f)
    /\ calls' = Append(calls, CreateCall(stage))
    /\ UNCHANGED <<env, layout, missing, exc, ListingVars, idx, img_url, tiles, imagesOk>>

\* any other exception leaves main()
Create_Uncaught(stage) ==
    /\ pc = stage
    /\ \E resp \in BoardResponses(pc) :
        LET f == MiroPostStep(post, resp) IN
        /\ f.result \in {"ConnectionError", "RuntimeError"}
        /\ post' = f
        /\ exc' = f.result
    /\ pc' = "crashed"
    /\ calls' = Append(calls, CreateCall(stage))
    /\ paced' = FALSE
    /\ UNCHANGED <<env, layout, missing, ListingVars, idx, done, img_url, created_ids,
                   shape, last_err, printed, groupCalls, tiles, imagesOk>>

\* ---------------------------------------------------------------------
\* main(): stage 4, miro_group_items
\* ---------------------------------------------------------------------
\* payloads = [{"data": {"items": ids_numbers}}, {"data": {"itemIds": item_ids}},
\*             {"itemIds": item_ids}]
Payloads(item_ids) ==
    << [path |-> <<"data", "items">>, ids |-> _coerce_ids_to_numbers(item_ids)],
       [path |-> <<"data", "itemIds">>, ids |-> item_ids],
       [path |-> <<"itemIds">>, ids |-> item_ids] >>

GroupCall(k, item_ids) ==
    [stage |-> "group", photo |-> idx, path |-> Payloads(item_ids)[k].path,
     ids |-> Payloads(item_ids)[k].ids]

KeepFirstErr(old, new) == IF old = NoErr THEN new ELSE old

\* except requests.HTTPError as e: last_err = e
RecordErr(old, new) == new

Group_Retry ==
    /\ pc = "group"
    /\ \E resp \in BoardResponses(pc) :
        /\ MiroPostStep(post, resp).result = "running"
        /\ post' = MiroPostStep(post, resp)
    /\ calls' = Append(calls, GroupCall(shape, GroupIds(created_ids)))
    /\ paced' = FALSE
    /\ UNCHANGED <<env, layout, pc, missing, exc, ListingVars, idx, done, img_url,
                   created_ids, shape, last_err, printed, groupCalls, tiles, imagesOk>>

\* return _miro_post(endpoint, p): no further payload is tried
Group_Returns ==
    /\ pc = "group"
    /\ \E resp \in BoardResponses(pc) :
        /\ MiroPostStep(post, resp).result = "returned"
        /\ post' = MiroPostStep(post, resp)
    /\ calls' = Append(calls, GroupCall(shape, GroupIds(created_ids)))
    /\ FinishPhoto(printed)
    /\ UNCHANGED <<env, layout, missing, exc, ListingVars, idx, img_url, created_ids,
                   shape, last_err, groupCalls, tiles, imagesOk>>

\* except requests.HTTPError as e: last_err = e; continue with the next
\* payload
Group_NextShape ==
    /\ pc = "group"
    /\ shape < Len(Payloads(GroupIds(created_ids)))
    /\ \E resp \in BoardResponses(pc) :
        /\ MiroPostStep(post, resp).result = "HTTPError"
        /\ last_err' = RecordErr(last_err, HTTPError(shape, resp.status))
    /\ shape' = shape + 1
    /\ post' = NewFrame(DefaultTries)
    /\ calls' = Append(calls, GroupCall(shape, GroupIds(created_ids)))
    /\ paced' = FALSE
    /\ UNCHANGED <<env, layout, pc, missing, exc, ListingVars, idx, done, img_url,
                   created_ids, printed, groupCalls, tiles, imagesOk>>

\* the last payload failed too: raise last_err, which main() catches as a
\* warning
Group_AllFailed ==
    /\ pc = "group"
    /\ shape = Len(Payloads(GroupIds(created_ids)))
    /\ \E resp \in BoardResponses(pc) :
        /\ MiroPostStep(post, resp).result = "HTTPError"
        /\ post' = MiroPostStep(post, resp)
        /\ last_err' = RecordErr(last_err, HTTPError(shape, resp.status))
        /\ FinishPhoto(Append(printed,
               Line("warn group", RecordErr(last_err, HTTPError(shape, resp.status)))))
    /\ calls' = Append(calls, GroupCall(shape, GroupIds(created_ids)))
    /\ UNCHANGED <<env, layout, missing, exc, ListingVars, idx, img_url, created_ids,
                   shape, groupCalls, tiles, imagesOk>>

\* any other exception leaves miro_group_items and main()
Group_Uncaught ==
    /\ pc = "group"
    /\ \E resp \in BoardResponses(pc) :
        /\ MiroPostStep(post, resp).result \in {"ConnectionError", "RuntimeError"}
        /\ post' = MiroPostStep(post, resp)
        /\ exc' = MiroPostStep(post, resp).result
    /\ pc' = "crashed"
    /\ calls' = Append(calls, GroupCall(shape, GroupIds(created_ids)))
    /\ paced' = FALSE
    /\ UNCHANGED <<env, layout, missing, ListingVars, idx, done, img_url, created_ids,
                   shape, last_err, printed, groupCalls, tiles, imagesOk>>

\* ---------------------------------------------------------------------
\* The run of main()
\* ---------------------------------------------------------------------
Next ==
    \/ Main_ConfigMissing
    \/ Main_ConfigComplete
    \/ Flickr_RequestFails
    \/ Flickr_NoContainer
    \/ Flickr_Page
    \/ Main_Summary
    \/ Main_SkipPhoto
    \/ Main_BeginPhoto
    \/ \E stage \in CreateStages : Create_Retry(stage)
    \/ \E stage \in CreateStages : Create_Returns(stage)
    \/ \E stage \in CreateStages : Create_HTTPError(stage)
    \/ \E stage \in CreateStages : Create_Uncaught(stage)
    \/ Group_Retry
    \/ Group_Returns
    \/ Group_NextShape
    \/ Group_AllFailed
    \/ Group_Uncaught

Spec == Init /\ [][Next]_vars

\* ---------------------------------------------------------------------
\* flickr_photos_in_photoset on its own, consumed to its end by list()
\* ---------------------------------------------------------------------
InitReader ==
    /\ env = [k \in {RequiredKeys[i] : i \in 1..Len(RequiredKeys)} |-> "value"]
    /\ layout = DefaultLayout
    /\ pc = "listing"
    /\ InitRest

NextReader ==
    \/ Flickr_RequestFails
    \/ Flickr_NoContainer
    \/ Flickr_Page

SpecReader == InitReader /\ [][NextReader]_vars

\* list() keeps asking the generator for the next record, and the server
\* answers every request
FairReader == SpecReader /\ WF_vars(NextReader)

\* ---------------------------------------------------------------------
\* _miro_post on its own: any endpoint, any tries
\* ---------------------------------------------------------------------
Endpoints == {"image", "rect", "text", "group"}

InitPost ==
    /\ env = [k \in {RequiredKeys[i] : i \in 1..Len(RequiredKeys)} |-> "value"]
    /\ layout = DefaultLayout
    /\ pc \in Endpoints
    /\ missing = <<>>
    /\ exc = None
    /\ page = 0
    /\ reqLog = <<>>
    /\ reported = {}
    /\ served = <<>>
    /\ photos = <<>>
    /\ total = 0
    /\ idx = 0
    /\ done = 0
    /\ img_url = None
    /\ created_ids = <<>>
    /\ \E tries \in 0..MaxTries : post = NewFrame(tries)
    /\ shape = 0
    /\ last_err = NoErr
    /\ calls = <<>>
    /\ printed = <<>>
    /\ groupCalls = 0
    /\ paced = TRUE
    /\ tiles = <<>>
    /\ imagesOk = 0

\* r = session.post(url, json=payload, timeout=60) and the rest of the pass
Post_Request ==
    /\ pc \in Endpoints
    /\ post.result = "running"
    /\ \E resp \in BoardResponses(pc) : post' = MiroPostStep(post, resp)
    /\ calls' = Append(calls, CreateCall(pc))
    /\ UNCHANGED <<env, layout, pc, missing, exc, ListingVars, idx, done, img_url,
                   created_ids, shape, last_err, printed, groupCalls, paced, tiles, imagesOk>>

SpecPost == InitPost /\ [][Post_Request]_vars

\* ---------------------------------------------------------------------
\* The grid on its own: the cells of positions 1, 2, ... for every layout
\* ---------------------------------------------------------------------
MaxIndex == 2 * MaxCols + 1

CellSizes == {1, DefaultCellH, DefaultCellW}

Origins == {DefaultStart, -7}

Layouts ==
    [per_row : (1..MaxCols) \cup {DefaultPerRow}, cell_w : CellSizes,
     cell_h : CellSizes, start_x : Origins, start_y : Origins]

InitLayout ==
    /\ env = [k \in {RequiredKeys[i] : i \in 1..Len(RequiredKeys)} |-> "value"]
    /\ layout \in Layouts
    /\ pc = "layout"
    /\ InitRest

\* col, row, x_center, y_center of the next position
Layout_Place ==
    /\ pc = "layout"
    /\ idx < MaxIndex
    /\ idx' = idx + 1
    /\ tiles' = Append(tiles, TileCenter(idx + 1, TileIndex(idx + 1, done), layout))
    /\ UNCHANGED <<env, layout, pc, missing, exc, ListingVars, done, img_url,
                   created_ids, post, shape, last_err, calls, printed,
                   groupCalls, paced, imagesOk>>

SpecLayout == InitLayout /\ [][Layout_Place]_vars

\* ---------------------------------------------------------------------
\* pick_best_image_url on its own, for every record
\* ---------------------------------------------------------------------
InitPick ==
    /\ env = [k \in {RequiredKeys[i] : i \in 1..Len(RequiredKeys)} |-> "value"]
    /\ layout = DefaultLayout
    /\ pc = "pick"
    /\ photos \in {<<p>> : p \in AllRecords}
    /\ InitOther

\* img_url = pick_best_image_url(p)
Pick_Apply ==
    /\ pc = "pick"
    /\ img_url' = pick_best_image_url(photos[1])
    /\ pc' = "picked"
    /\ UNCHANGED <<env, layout, missing, exc, ListingVars, idx, done, created_ids,
                   post, shape, last_err, calls, printed, groupCalls, paced,
                   tiles, imagesOk>>

SpecPick == InitPick /\ [][Pick_Apply]_vars

\* =====================================================================
\* Properties
\* =====================================================================

\* ---- C1 -------------------------------------------------------------
RequiredEmpty == {k \in DOMAIN env : env[k] = None \/ env[k] = ""}

\* C1: when one of the five required configuration values is absent or
\* empty, main() gets no further than the configuration error, which names
\* exactly the absent and empty values (each once), and no listing request
\* and no board request is ever sent.
C1_ConfigError ==
    RequiredEmpty # {} =>
        /\ pc \in {"start", "config_error"}
        /\ reqLog = <<>>
        /\ calls = <<>>
        /\ pc = "config_error" =>
            /\ exc = "SystemExit"
            /\ {missing[i] : i \in 1..Len(missing)} = RequiredEmpty
            /\ Len(missing) = Cardinality(RequiredEmpty)

C1_Witness ==
    /\ pc = "config_error"
    /\ env["FLICKR_USER_ID"] = ""
    /\ env["MIRO_TOKEN"] = None
    /\ Len(missing) = 2

\* ---- C2 -------------------------------------------------------------
\* every answer so far carried the container and the page count P
ConstantServer(P) == reported \subseteq {Answer(<<P>>)}

ListingEnded == pc \in {"select", "no_photos"}

\* C2: against a server that always sends the container and the same page
\* count P >= 1, the reader requests pages 1, 2, ... in ascending order,
\* each once, never more than P of them, has yielded exactly the records
\* served so far in their order, and has sent exactly P requests when it
\* ends.
C2_Pagination ==
    \A P \in 1..MaxPage :
        ConstantServer(P) =>
            /\ \A i \in 1..Len(reqLog) : reqLog[i] = i
            /\ Len(reqLog) <= P
            /\ photos = served
            /\ ListingEnded => Len(reqLog) = P

C2_Witness ==
    /\ pc = "select"
    /\ reported = {Answer(<<2>>)}
    /\ reqLog = <<1, 2>>
    /\ Len(photos) = 2

\* ---- C3 -------------------------------------------------------------
ReportedCounts == {PagesOf(a.pages) : a \in {b \in reported : b.container}}

Largest(S) == CHOOSE m \in S : \A x \in S : x <= m

BeyondSeen == Answer(<<Beyond>>) \in reported

\* C3 as claimed: whatever the server answers, the reader ends.
C3_AlwaysEnds == <>(pc # "listing")

\* C3 as amended: as long as the server has reported no page count above
\* the bound, the reader has sent at most max(1, largest count reported)
\* requests, and it ends unless the server reports a count above the bound.
C3_EndsWhenCountsBounded ==
    /\ [](~BeyondSeen =>
            Len(reqLog) <= (IF ReportedCounts = {} \/ Largest(ReportedCounts) < 1
                            THEN 1 ELSE Largest(ReportedCounts)))
    /\ <>(pc # "listing" \/ BeyondSeen)

C3_Witness ==
    /\ ListingEnded
    /\ ~BeyondSeen
    /\ Cardinality(ReportedCounts) >= 2
    /\ Len(reqLog) >= 2

\* ---- C4 -------------------------------------------------------------
Requests == Len(post.hist)

\* C4: a call with tries >= 1 sends at most tries requests; every request
\* but the last was answered 429 and followed by one sleep of 2 units, and
\* no other sleep happens; a 2xx answer ends the call returning the body,
\* an error status that is not retried ends it raising HTTPError.
C4_BoundedRetry ==
    (pc \in Endpoints /\ post.tries >= 1) =>
        /\ Requests <= post.tries
        /\ Len(calls) = Requests
        /\ \A i \in 1..(Requests - 1) : post.hist[i] = RateLimited
        /\ \A i \in 1..Len(post.slept) : post.slept[i] = RetrySleep
        /\ Len(post.slept) =
              IF post.result = "running" THEN Requests
              ELSE Requests - 1
        /\ post.result = "running" =>
              (Requests = 0 \/ post.hist[Requests] = RateLimited)
        /\ (Requests > 0 /\ post.hist[Requests] = 200) => post.result = "returned"
        /\ (Requests > 0 /\ post.hist[Requests] = 400) => post.result = "HTTPError"
        /\ post.result = "returned" => post.hist[Requests] = 200

C4_Witness ==
    /\ pc \in Endpoints
    /\ post.tries = 3
    /\ post.hist = <<RateLimited, RateLimited, 200>>
    /\ post.slept = <<RetrySleep, RetrySleep>>
    /\ post.result = "returned"

\* ---- C5 -------------------------------------------------------------
\* C5 as claimed: a call whose every attempt was answered 429 ends with
\* RuntimeError("Failed after retries").
C5_RetryExhausted ==
    (/\ pc \in Endpoints
     /\ post.tries >= 1
     /\ Requests = post.tries
     /\ \A i \in 1..Requests : post.hist[i] = RateLimited)
        => post.result = "RuntimeError"

\* ---- C6 -------------------------------------------------------------
\* C6 as claimed: once listing has succeeded no failure of a board call
\* ends the run: main() is never left by an exception after the photos
\* were listed.
C6_BoardFailuresCaught == (total > 0) => pc # "crashed"

\* ---- C7 -------------------------------------------------------------
NoUsableUrl(p) ==
    \/ p.media = "video"
    \/ \A i \in 1..Len(UrlKeys) : UrlKeys[i] \notin DOMAIN p.urls

\* C7: when the next photo is a video or has none of the URL fields, the
\* iteration is the skip: no board request is sent for it, done is not
\* changed, only "skip" is printed for it, and the loop is back at its head
\* with idx advanced by one.
C7_SkipSendsNothing ==
    /\ []((printed # <<>> /\ printed[1].suffix = "skip") =>
            (calls = <<>> /\ groupCalls = 0 /\ Len(printed) = 1))
    /\ [][(pc = "select" /\ idx < total /\ NoUsableUrl(photos[idx + 1])) =>
            /\ pc' = "select"
            /\ idx' = idx + 1
            /\ done' = done
            /\ calls' = <<>>
            /\ printed' = <<Line("skip", NoErr)>>]_vars

C7_Witness ==
    /\ pc = "select"
    /\ idx = 2
    /\ done = 1
    /\ photos[2].media = "video"
    /\ printed = <<Line("skip", NoErr)>>
    /\ calls = <<>>

\* ---- C8 -------------------------------------------------------------
PastImage == \E i \in 1..Len(calls) : calls[i].stage # "image"

IterationOver == pc \in {"select", "summary", "crashed"}

\* C8 as claimed: a photo that got past image placement has had
\* miro_group_items invoked exactly once if two or more identifiers were
\* collected, and never otherwise.
C8_GroupedIffTwo ==
    (IterationOver /\ PastImage) =>
        groupCalls = (IF Len(created_ids) >= 2 THEN 1 ELSE 0)

\* ---- C9 -------------------------------------------------------------
GroupLog == SelectSeq(calls, LAMBDA c : c.stage = "group")

ShapePaths == << <<"data", "items">>, <<"data", "itemIds">>, <<"itemIds">> >>

ShapeOf(c) == CHOOSE k \in 1..Len(ShapePaths) : ShapePaths[k] = c.path

\* C9: the grouping requests of a photo carry the payload shapes in the
\* order (a) data.items with coerced ids, (b) data.itemIds, (c) itemIds,
\* starting at (a) and moving on by one shape at a time; a later shape is
\* being tried only when the shape before it ended in an HTTPError; once a
\* shape has succeeded no further request follows; and the error main()
\* reports when all failed is the one of shape (c).
C9_ShapesInOrder ==
    LET G == GroupLog IN
    /\ \A i \in 1..Len(G) :
        /\ \E k \in 1..Len(ShapePaths) : ShapePaths[k] = G[i].path
        /\ G[i].ids = IF ShapeOf(G[i]) = 1
                      THEN _coerce_ids_to_numbers(created_ids)
                      ELSE created_ids
    /\ Len(G) >= 1 => ShapeOf(G[1]) = 1
    /\ \A i \in 1..(Len(G) - 1) :
        ShapeOf(G[i + 1]) \in {ShapeOf(G[i]), ShapeOf(G[i]) + 1}
    /\ (pc = "group" /\ shape > 1) =>
        /\ last_err.shape = shape - 1
        /\ RaisesForStatus(last_err.status)
        /\ ShapeOf(G[Len(G)]) = shape - (IF post.hist = <<>> THEN 1 ELSE 0)
    /\ pc = "group" => post.result = "running"
    /\ (Len(G) >= 1 /\ post.result = "returned") =>
        /\ pc \in {"select", "summary"}
        /\ printed[Len(printed)].suffix = "ok"
        /\ \A i \in 1..Len(printed) : printed[i].suffix # "warn group"
    /\ \A i \in 1..Len(printed) :
        printed[i].suffix = "warn group" =>
            /\ printed[i].e.shape = Len(ShapePaths)
            /\ printed[i].e.status = post.hist[Len(post.hist)]
            /\ ShapeOf(G[Len(G)]) = Len(ShapePaths)
            /\ {ShapeOf(G[j]) : j \in 1..Len(G)} = 1..Len(ShapePaths)

C9_Witness ==
    /\ pc = "select"
    /\ Len(printed) = 2
    /\ printed[1].suffix = "warn group"
    /\ Len(GroupLog) = 6

\* ---- C10 ------------------------------------------------------------
\* C10: no board request is sent before the listing has ended; and a
\* listing request that fails leaves main() by its exception with no board
\* request sent and no photo processed.
C10_ListingFailureAborts ==
    /\ pc \in {"start", "config_error", "listing", "no_photos"} =>
        (calls = <<>> /\ idx = 0)
    /\ (calls # <<>> \/ idx > 0) => total = Len(photos) /\ total > 0
    /\ (exc = "HTTPError" \/ (exc = "ConnectionError" /\ calls = <<>>)) =>
        /\ pc = "crashed"
        /\ calls = <<>>
        /\ idx = 0

C10_Witness ==
    /\ pc = "crashed"
    /\ exc = "HTTPError"
    /\ reqLog = <<1, 2>>
    /\ Len(photos) >= 1
    /\ calls = <<>>

\* ---- C11 ------------------------------------------------------------
AllRateLimited(h) == \A i \in 1..Len(h) : h[i] = RateLimited

SleptTimes(k) == [i \in 1..k |-> RetrySleep]

\* C11: in a call with tries = N >= 1, after k < N answers that were all
\* 429 the call is still running, in its attempt k + 1; when that attempt is
\* answered 200 the call returns the body of that answer, having sent
\* exactly k + 1 requests and slept exactly k times, and raises nothing.
C11_RetryThenSuccess ==
    /\ []((pc \in Endpoints /\ post.tries >= 1 /\ AllRateLimited(post.hist)
            /\ Requests < post.tries)
           => (post.result = "running" /\ post.attempt = Requests))
    /\ [][(pc \in Endpoints /\ post.tries >= 1 /\ AllRateLimited(post.hist)
            /\ Requests < post.tries
            /\ post'.hist = Append(post.hist, 200))
           => /\ post'.result = "returned"
              /\ post'.body \in IdSamples(pc)
              /\ Len(calls') = Requests + 1
              /\ post'.slept = SleptTimes(Requests)]_vars

\* one 429 then success, with the default tries = 2
C11_Witness ==
    /\ pc \in Endpoints
    /\ post.tries = DefaultTries
    /\ post.hist = <<RateLimited, 200>>
    /\ post.slept = <<RetrySleep>>
    /\ Len(calls) = 2
    /\ post.result = "returned"
    /\ post.body \in IdSamples(pc)

\* ---- C12 ------------------------------------------------------------
\* the image-creation call of the current photo has ended with an exception
ImageFailed ==
    /\ calls # <<>>
    /\ calls[Len(calls)].stage = "image"
    /\ post.result \in {"HTTPError", "ConnectionError", "RuntimeError"}

\* the HTTPError of line 258 was caught: "[idx/total] ERR image" is printed
ImageErrCaught ==
    /\ ImageFailed
    /\ printed # <<>>
    /\ printed[Len(printed)].suffix = "ERR image"

\* C12 as claimed: once the image-creation call of a photo has failed, no
\* rectangle, text or group request is sent for the photo, the photo is not
\* counted as placed, and the loop is back at its head for the next photo
\* (or, after the last photo, at the summary).
C12_ImageFailureGivesUp ==
    ImageFailed =>
        /\ \A i \in 1..Len(calls) : calls[i].stage = "image"
        /\ groupCalls = 0
        /\ done = imagesOk
        /\ \A i \in 1..Len(printed) : printed[i].suffix # "ok"
        /\ pc \in {"select", "summary"}

\* what the code does when the failure is an HTTPError
C12_CaughtFailureGivesUp ==
    ImageErrCaught =>
        /\ \A i \in 1..Len(calls) : calls[i].stage = "image"
        /\ groupCalls = 0
        /\ done = imagesOk
        /\ pc \in {"select", "summary"}

\* ---- C13 ------------------------------------------------------------
Called(stage) == \E i \in 1..Len(calls) : calls[i].stage = stage

\* the call of `stage` for the current photo has ended with an exception:
\* its HTTPError was reported, or it was the last call before main() ended
StageFailed(stage) ==
    \/ \E i \in 1..Len(printed) : printed[i].suffix = ErrSuffix(stage)
    \/ /\ pc = "crashed"
       /\ calls # <<>>
       /\ calls[Len(calls)].stage = stage

Placed == printed # <<>> /\ printed[Len(printed)].suffix = "ok"

\* C13 as claimed: after a failed rectangle call the text call is still
\* made, after a failed text call the grouping decision is still taken,
\* the failed stage adds no identifier, and the photo is counted as placed
\* when its iteration is over.
C13_LaterStagesSurvive ==
    /\ StageFailed("rect") =>
        /\ pc = "text" \/ Called("text")
        /\ \A i \in 1..Len(created_ids) : created_ids[i] \notin IdSamples("rect")
    /\ StageFailed("text") =>
        /\ pc \in {"group", "select", "summary"} \/ Called("group")
        /\ \A i \in 1..Len(created_ids) : created_ids[i] \notin IdSamples("text")
    /\ ((StageFailed("rect") \/ StageFailed("text")) /\ IterationOver) =>
        (Placed /\ done = imagesOk)

\* what the code does when the failures are HTTPErrors
C13_CaughtFailuresSurvive ==
    pc # "crashed" => C13_LaterStagesSurvive

\* ---- C14 ------------------------------------------------------------
StageOrder == <<"image", "rect", "text", "group">>

StageRank(stage) == CHOOSE k \in 1..Len(StageOrder) : StageOrder[k] = stage

\* C14: the requests sent for one photo come in the order image,
\* rectangle, text, group: the first is an image request, each request is of
\* the same stage as the one before it (a retry or the next payload shape)
\* or of the stage right after it, and none is of an earlier stage; every
\* request is sent for the photo the loop is at, is added after the
\* requests already sent for it, and the loop moves from a photo to the
\* next one only, so every request for photo i precedes every request for
\* photo i + 1.
C14_StagesInOrder ==
    /\ [](/\ calls # <<>> => calls[1].stage = "image"
          /\ \A i \in 1..(Len(calls) - 1) :
                StageRank(calls[i + 1].stage) - StageRank(calls[i].stage)
                    \in {0, 1}
          /\ \A i \in 1..Len(calls) : calls[i].photo = idx)
    /\ [][/\ idx' \in {idx, idx + 1}
          /\ idx' = idx + 1 => (pc = "select" /\ calls' = <<>>)
          /\ (idx' = idx /\ calls' # calls) =>
                /\ Len(calls') = Len(calls) + 1
                /\ SubSeq(calls', 1, Len(calls)) = calls]_vars

\* the second photo has had requests of all four stages
C14_Witness ==
    /\ idx = 2
    /\ pc = "select"
    /\ {calls[i].stage : i \in 1..Len(calls)} = {"image", "rect", "text", "group"}
    /\ Len(calls) > 4

\* ---- C15 ------------------------------------------------------------
RequestsOf(stage) == Len(SelectSeq(calls, LAMBDA c : c.stage = stage))

\* C15 as claimed: one photo causes at most four requests to the board,
\* 429 retries and successive grouping payload shapes counted.
C15_AtMostFourRequests == Len(calls) <= 4

\* C15, amended: one photo causes at most four calls of the board client
\* (image, rectangle, text, group); each of the three create calls sends at
\* most tries = 2 requests and the grouping call at most 2 for each of its
\* three payload shapes, 12 requests in all.
C15_AtMostTwelveRequests ==
    /\ \A stage \in CreateStages : RequestsOf(stage) <= DefaultTries
    /\ RequestsOf("group") <= Len(ShapePaths) * DefaultTries
    /\ groupCalls <= 1
    /\ Len(calls) <= 12
    /\ \A i \in 1..Len(calls) : calls[i].stage \in Endpoints

\* every call of one photo used up its retries and payload shapes
C15_Witness ==
    /\ pc = "select"
    /\ Len(calls) = 12
    /\ RequestsOf("group") = 6

\* ---- C16 ------------------------------------------------------------
\* the first request of a photo is about to be sent
FirstRequestDue == pc = "image" /\ calls = <<>>

\* C16 as claimed: when the first request of a photo is sent, a pacing
\* sleep has happened since the last request of the photos before it,
\* however their iterations ended.
C16_PacedBetweenPhotos == FirstRequestDue => paced

\* C16, amended: the pacing sleep follows the last request of a placed
\* photo, and of no other: after a caught failure of the image call the
\* loop is back at its head with no sleep since that request, and neither
\* skipping a photo nor starting one sleeps.
C16_PacedAfterPlaced ==
    /\ []((pc \in {"select", "summary"} /\ Placed) => paced)
    /\ []((pc \in {"select", "summary"} /\ ImageErrCaught) => ~paced)
    /\ [][(pc = "select" /\ pc' \in {"select", "image"}) => paced' = paced]_vars

\* the first photo was placed and the second is about to send its first
\* request
C16_Witness ==
    /\ FirstRequestDue
    /\ idx = 2
    /\ done = 1
    /\ paced

\* ---- C17 ------------------------------------------------------------
\* C17: with C columns per row (C >= 1), the centers of positions i and
\* i + C have the same x and their y differ by one cell height, and the
\* positions 1..C have y = START_Y (row 0) and x = START_X + (i - 1) * CELL_W.
C17_GridArithmetic ==
    pc = "layout" =>
        \A i \in 1..Len(tiles) :
            /\ tiles[i].idx = i
            /\ i + layout.per_row <= Len(tiles) =>
                /\ tiles[i + layout.per_row].x = tiles[i].x
                /\ tiles[i + layout.per_row].y = tiles[i].y + layout.cell_h
            /\ i <= layout.per_row =>
                /\ tiles[i].y = layout.start_y
                /\ tiles[i].x = layout.start_x + (i - 1) * layout.cell_w

\* the default grid laid out up to position 7, the first of row 1
C17_Witness ==
    /\ pc = "layout"
    /\ layout = DefaultLayout
    /\ Len(tiles) = DefaultPerRow + 1
    /\ tiles[DefaultPerRow].x = 5 * DefaultCellW
    /\ tiles[DefaultPerRow].y = 0
    /\ tiles[DefaultPerRow + 1].x = 0
    /\ tiles[DefaultPerRow + 1].y = DefaultCellH

\* ---- C18 ------------------------------------------------------------
PreferenceOrder == <<"url_c", "url_l", "url_z", "url_m", "url_h", "url_k", "url_o">>

\* C18: for a record whose media is "video" the selector returns None
\* whatever URL fields the record has; for any other record it returns the
\* value of the first field of url_c, url_l, url_z, url_m, url_h, url_k,
\* url_o that the record has, and None when it has none of them.
C18_FirstPresentUrl ==
    pc = "picked" =>
        LET p == photos[1]
            Has(i) == PreferenceOrder[i] \in DOMAIN p.urls
        IN
        /\ p.media = "video" => img_url = None
        /\ p.media # "video" =>
            /\ (\A i \in 1..Len(PreferenceOrder) : ~Has(i)) => img_url = None
            /\ \A i \in 1..Len(PreferenceOrder) :
                (Has(i) /\ \A j \in 1..(i - 1) : ~Has(j)) =>
                    img_url = p.urls[PreferenceOrder[i]]

\* a photo with both url_c and url_o: url_c wins
C18_Witness ==
    /\ pc = "picked"
    /\ photos[1].media = "photo"
    /\ DOMAIN photos[1].urls = {"url_c", "url_o"}
    /\ photos[1].urls["url_o"] = "url_o"
    /\ img_url = "url_c"

\* ---- C19 ------------------------------------------------------------
\* C19: 0 <= done <= idx <= total throughout the photo loop, done never
\* decreases, and when the summary is printed done is the number of photos
\* whose image-creation call returned: failures of the later stages do not
\* take a photo out of the count, skipped and image-failed photos are not
\* in it.
C19_DoneCountsImages ==
    /\ [](pc \in {"select", "image", "rect", "text", "group", "summary"} =>
            (0 <= done /\ done <= idx /\ idx <= total))
    /\ [][done' >= done]_vars
    /\ [](pc = "summary" => done = imagesOk)

\* two photos, the first not placed; the second is counted although its
\* rectangle and text calls failed and no grouping was attempted
C19_Witness ==
    /\ pc = "summary"
    /\ total = 2
    /\ done = 1
    /\ imagesOk = 1
    /\ groupCalls = 0
    /\ StageFailed("rect")
    /\ StageFailed("text")
    /\ Placed

\* ---- C20 ------------------------------------------------------------
\* C20: the center given to a photo is the cell of its position idx in the
\* listing, whatever the number of photos placed before it; a position
\* whose photo was skipped or whose image call failed is given to no other
\* photo; and no two photos of a run are given the same center.
C20_CellByPosition ==
    /\ Len(tiles) <= idx
    /\ \A a \in 1..Len(tiles) :
        /\ tiles[a].idx \in 1..idx
        /\ tiles[a].x = layout.start_x
                        + ((tiles[a].idx - 1) % layout.per_row) * layout.cell_w
        /\ tiles[a].y = layout.start_y
                        + ((tiles[a].idx - 1) \div layout.per_row) * layout.cell_h
    /\ \A a, b \in 1..Len(tiles) :
        a < b =>
            /\ tiles[a].idx < tiles[b].idx
            /\ <<tiles[a].x, tiles[a].y>> # <<tiles[b].x, tiles[b].y>>

\* in a grid of two columns the image call of photo 1 failed; photo 2, with
\* nothing placed before it, is given the second cell
C20_Witness ==
    /\ pc = "image"
    /\ layout.per_row = 2
    /\ idx = 2
    /\ done = 0
    /\ imagesOk = 0
    /\ Len(tiles) = 2
    /\ tiles[1].x = 0
    /\ tiles[2].x = DefaultCellW
    /\ tiles[2].y = 0

====
